---- MODULE Spec2Model ----
(***************************************************************************)
(* Connection pairing, cascading close and the upstream-handshake          *)
(* rendezvous of proxy/connection.go, for one ConnContext.                 *)
(*                                                                         *)
(* A flow of execution (goroutine) is a call stack of frames; every step    *)
(* that reads or writes shared memory is one action, so that flows          *)
(* interleave between any two statements of the source.  None of the        *)
(* fields is guarded by a lock in the source, and none is here.             *)
(***************************************************************************)
EXTENDS Integers, Sequences, FiniteSets

\* ---------------------------------------------------------------- bounds
NumFlows == 2          \* concurrent flows of execution; flow 1 is the session's own
NumAddons == 2         \* registered addons (proxy.Addons)
MaxServerConns == 2    \* ServerConn instances one context may create, and
                       \* server-side connections it may dial
MaxCloseCalls == 2     \* top-level Close calls in one behaviour
MaxGetCert == 2        \* getCertificate invocations when it is re-invoked
MaxHttpInits == 3      \* initHttpServerConn calls counted in one behaviour
MaxVersions == 3       \* length of a client's list of supported versions

Flows == 1..NumFlows
Addons == 1..NumAddons
SCIds == 1..MaxServerConns          \* ServerConn instances, by creation order
ServerWrappers == 1..MaxServerConns \* wrapServerConn instances, by creation order
Wrappers == 0..MaxServerConns       \* 0 is the context's wrapClientConn
Hosts == {"a.example:443", "b.example:9000"}
Names == {"a.example", "b.example"}

VARIABLES
  Tls,            \* ClientConn.Tls
  pipeHost,       \* connCtx.pipeConn.host
  ctxServerConn,  \* connCtx.ServerConn: 0 is nil, else a ServerConn instance
  nSC,            \* ServerConn instances created so far
  serverConns,    \* the fields of every ServerConn instance
  nWrap,          \* wrapServerConn instances created so far
  wrappers,       \* closed, closeErr per wrapper; rawCloses is the wrapped net.Conn
  stack,          \* the call stack of every flow
  panicked,       \* flows ended by a run-time panic
  connNotes,      \* history: ServerConnected deliveries, per ServerConn and addon
  discNotes,      \* history: ClientDisconnected (wrapper 0) and ServerDisconnected
                  \* (its wrapper) deliveries, per wrapper and addon
  retvals,        \* history: values returned by the Close calls on each wrapper
  closeRets,      \* history: Close calls on each wrapper that have returned
  cascades,       \* history: calls of the peer's Close made by each wrapper's Close
  closeCalls,     \* history: top-level Close calls started
  pairedClose,    \* history: the server wrapper paired with the client wrapper when
                  \* a top-level Close first started with both sides open, else 0
  dialed,         \* history: outcome of the TCP dial of each ServerConn
  hsAttempts,     \* history: upstream handshakes started per ServerConn
  hsOutcome,      \* history: outcome of the last upstream handshake per ServerConn
  fireAttempts,   \* history: close(tlsHandshaked) statements executed per ServerConn
  caCalls,        \* history: server names passed to ca.GetCert, in order
  gcCalls,        \* history: server names of the getCertificate invocations, in order
  gcRets,         \* history: <<certificate, error>> pairs getCertificate returned
  tlsRets,        \* history: values TlsState returned, per ServerConn
  dialTlsRets,    \* history: <<conn, error>> pairs DialTLSContext returned
  attached,       \* wrapClientConn.connCtx # nil for the context's client wrapper
  tcpRets,        \* history: the error initServerTcpConn returned, per ServerConn
  lastCfg,        \* history: the client hello and the tls.Config built from it
                  \* by the latest getCertificate invocation
  httpInits,      \* history: initHttpServerConn calls counted
  httpRets        \* history: <<conn, error>> pairs the plain-HTTP dial step
                  \* returned, per ServerConn

ctxVars == <<Tls, pipeHost, ctxServerConn, nSC, serverConns>>
wrapVars == <<nWrap, wrappers>>
flowVars == <<stack, panicked>>
closeHist == <<retvals, closeRets, cascades, closeCalls, pairedClose>>
tlsHist == <<hsAttempts, hsOutcome, fireAttempts, caCalls, gcCalls, gcRets,
             tlsRets, dialTlsRets>>
notes == <<connNotes, discNotes>>
sessHist == <<attached, tcpRets, lastCfg, httpInits, httpRets>>
vars == <<ctxVars, wrapVars, flowVars, notes, closeHist, dialed, tlsHist, sessHist>>

\* ------------------------------------------------------------ the objects
\* newServerConn: every field but the fresh, open channel is the zero value.
\* tlsHandshaked is TRUE once the channel is closed; tlsConn and tlsState name
\* the handshake (by its number) they came from, 0 is nil.
newServerConn ==
  [Address |-> "", Conn |-> 0, tlsHandshaked |-> FALSE, tlsHandshakeErr |-> "nil",
   tlsConn |-> 0, tlsState |-> 0, client |-> "nil"]

\* A wrapper as built at lines 90-94, 129-133 and 245-248: closed and closeErr
\* are zero values, the wrapped connection is open.  rawCloses and rawErr are
\* the wrapped net.Conn: how often it was closed and what its last Close said.
newWrapper == [closed |-> FALSE, closeErr |-> "nil", rawCloses |-> 0, rawErr |-> "nil"]

\* net.Conn.Close of the wrapped connection: the first close succeeds or fails
\* with an I/O error, a repeated close reports the connection already closed.
RawClose(w) ==
  IF wrappers[w].rawCloses = 0 THEN {"nil", "EIO"} ELSE {"ErrClosed"}

\* ------------------------------------------------------------- call stacks
\* A frame: the operation, the statement it is at, the object it was called
\* on (id), a loop index (i), its argument and the connection it dialled.
Frame(op, pc, id, arg) ==
  [op |-> op, pc |-> pc, id |-> id, i |-> 1, arg |-> arg, conn |-> 0]
Idle(t) == stack[t] = <<>> /\ ~panicked[t]
AllIdle == \A t \in Flows : stack[t] = <<>>
Top(t) == stack[t][Len(stack[t])]
At(t, op, pc) == stack[t] # <<>> /\ Top(t).op = op /\ Top(t).pc = pc
Goto(t, pc) == [stack EXCEPT ![t][Len(stack[t])].pc = pc]
Call(t, pc, f) == [stack EXCEPT ![t] = Append([@ EXCEPT ![Len(@)].pc = pc], f)]
Return(t) == [stack EXCEPT ![t] = SubSeq(@, 1, Len(@) - 1)]
Panic(t) ==
  /\ stack' = [stack EXCEPT ![t] = <<>>]
  /\ panicked' = [panicked EXCEPT ![t] = TRUE]

\* for _, addon := range proxy.Addons (lines 98, 135, 222, 269): the addon
\* the i-th iteration of the loop calls.
AddonAtReversed(i) == NumAddons + 1 - i
AddonAt(i) == i

\* The state newConnContext leaves (lines 65-71): no ServerConn, a plain
\* client, nothing dialled, called or notified yet.
NewContext ==
  /\ Tls = FALSE
  /\ pipeHost \in Hosts
  /\ ctxServerConn = 0
  /\ nSC = 0
  /\ serverConns = [s \in SCIds |-> newServerConn]
  /\ nWrap = 0
  /\ wrappers = [w \in Wrappers |-> newWrapper]
  /\ stack = [t \in Flows |-> <<>>]
  /\ panicked = [t \in Flows |-> FALSE]
  /\ connNotes = [s \in SCIds |-> [a \in Addons |-> 0]]
  /\ discNotes = [w \in Wrappers |-> [a \in Addons |-> 0]]
  /\ retvals = [w \in Wrappers |-> {}]
  /\ closeRets = [w \in Wrappers |-> 0]
  /\ cascades = [w \in Wrappers |-> 0]
  /\ closeCalls = 0
  /\ pairedClose = 0
  /\ dialed = [s \in SCIds |-> "none"]
  /\ hsAttempts = [s \in SCIds |-> 0]
  /\ hsOutcome = [s \in SCIds |-> "none"]
  /\ fireAttempts = [s \in SCIds |-> 0]
  /\ caCalls = <<>>
  /\ gcCalls = <<>>
  /\ gcRets = {}
  /\ tlsRets = [s \in SCIds |-> {}]
  /\ dialTlsRets = {}
  /\ tcpRets = [s \in SCIds |-> "none"]
  /\ lastCfg = <<>>
  /\ httpInits = 0
  /\ httpRets = [s \in SCIds |-> {}]

\* A session under way: the context is built and its client wrapper refers
\* back to it.
Init == NewContext /\ attached = TRUE

\* wrapListener.Accept has just returned the client wrapper (lines 245-248):
\* Conn and proxy are set, connCtx is nil.
Accepted == NewContext /\ attached = FALSE /\ pipeHost = "a.example:443"

\* The wrapper is given its back-reference to the context built for it.
AttachConnContext ==
  /\ ~attached
  /\ AllIdle
  /\ attached' = TRUE
  /\ UNCHANGED <<ctxVars, wrapVars, flowVars, notes, closeHist, dialed, tlsHist,
                 tcpRets, lastCfg, httpInits, httpRets>>

\* The tunnel descriptor's host does not bear on how flows interleave: the
\* concurrent specifications start from one host.
InitOneHost == Init /\ pipeHost = "a.example:443"

\* ------------------------------------------------- wrapClientConn.Close
\* Lines 215 and 262: the idempotency test reads the wrapper's flag.
AlreadyClosedIfErr(w) == wrappers[w].closeErr # "nil"
AlreadyClosed(w) == wrappers[w].closed

\* Lines 219 and 266: the flag is set before the real close, the loop and
\* the call of the peer's Close.
MarkClosedNever(wr) == wr
MarkClosed(wr) == [wr EXCEPT !.closed = TRUE]

\* Lines 216, 230, 263 and 275: Close returns the wrapper's cached error.
CachedCloseErr(w) == wrappers[w].closeErr

\* The server wrapper the context pairs with its client wrapper, 0 when none:
\* the operand of the test at line 226.
PairedWrapper ==
  IF ctxServerConn = 0 THEN 0 ELSE serverConns[ctxServerConn].Conn

\* Neither side of the pair carries the closed flag yet.
BothOpen ==
  /\ PairedWrapper # 0
  /\ ~wrappers[0].closed
  /\ ~wrappers[PairedWrapper].closed

StartClientClose(t) ==
  /\ Idle(t)
  /\ closeCalls < MaxCloseCalls
  /\ closeCalls' = closeCalls + 1
  /\ pairedClose' = IF pairedClose = 0 /\ BothOpen THEN PairedWrapper ELSE pairedClose
  /\ stack' = [stack EXCEPT ![t] = <<Frame("wrapClientConn.Close", "check", 0, "")>>]
  /\ UNCHANGED <<ctxVars, wrapVars, panicked, notes, retvals, closeRets, cascades,
                 dialed, tlsHist, sessHist>>

\* Line 215: if c.closed
ClientCloseCheck(t) ==
  /\ At(t, "wrapClientConn.Close", "check")
  /\ stack' = IF AlreadyClosed(0) THEN Goto(t, "ret") ELSE Goto(t, "set")
  /\ UNCHANGED <<ctxVars, wrapVars, panicked, notes, closeHist, dialed, tlsHist,
                 sessHist>>

\* Line 219: c.closed = true
ClientCloseSet(t) ==
  /\ At(t, "wrapClientConn.Close", "set")
  /\ wrappers' = [wrappers EXCEPT ![0] = MarkClosed(@)]
  /\ stack' = Goto(t, "close")
  /\ UNCHANGED <<ctxVars, nWrap, panicked, notes, closeHist, dialed, tlsHist,
                 sessHist>>

\* Line 220: c.closeErr = c.Conn.Close()
ClientCloseReal(t) ==
  /\ At(t, "wrapClientConn.Close", "close")
  /\ \E e \in RawClose(0) :
       wrappers' = [wrappers EXCEPT ![0].rawCloses = @ + 1, ![0].rawErr = e,
                                    ![0].closeErr = e]
  /\ stack' = IF NumAddons = 0 THEN Goto(t, "cascade") ELSE Goto(t, "notify")
  /\ UNCHANGED <<ctxVars, nWrap, panicked, notes, closeHist, dialed, tlsHist,
                 sessHist>>

\* Lines 222-224: one iteration of the loop over proxy.Addons; the argument
\* c.connCtx.ClientConn is a nil dereference when c.connCtx is nil.
ClientCloseNotify(t) ==
  /\ At(t, "wrapClientConn.Close", "notify")
  /\ IF attached
       THEN /\ discNotes' = [discNotes EXCEPT ![0][AddonAt(Top(t).i)] = @ + 1]
            /\ stack' = IF Top(t).i = NumAddons
                          THEN Goto(t, "cascade")
                          ELSE [stack EXCEPT ![t][Len(stack[t])].i = @ + 1]
            /\ UNCHANGED panicked
       ELSE /\ Panic(t)
            /\ UNCHANGED discNotes
  /\ UNCHANGED connNotes
  /\ UNCHANGED <<ctxVars, wrapVars, closeHist, dialed, tlsHist, sessHist>>

\* Line 226: if c.connCtx.ServerConn != nil && c.connCtx.ServerConn.Conn != nil;
\* c.connCtx.ServerConn is a nil dereference when c.connCtx is nil.
ClientCloseCascadeTest(t) ==
  /\ At(t, "wrapClientConn.Close", "cascade")
  /\ IF attached
       THEN /\ stack' = IF PairedWrapper # 0
                          THEN Goto(t, "call") ELSE Goto(t, "ret")
            /\ UNCHANGED panicked
       ELSE Panic(t)
  /\ UNCHANGED <<ctxVars, wrapVars, notes, closeHist, dialed, tlsHist, sessHist>>

\* Line 227: c.connCtx.ServerConn.Conn.Close(), the fields read again; a nil
\* Conn (the ServerConn replaced since line 226) is a nil-interface call.
ClientCloseCascade(t) ==
  /\ At(t, "wrapClientConn.Close", "call")
  /\ IF serverConns[ctxServerConn].Conn = 0
       THEN /\ Panic(t)
            /\ UNCHANGED cascades
       ELSE /\ stack' = Call(t, "ret", Frame("wrapServerConn.Close", "check",
                                            serverConns[ctxServerConn].Conn, ""))
            /\ cascades' = [cascades EXCEPT ![0] = @ + 1]
            /\ UNCHANGED panicked
  /\ UNCHANGED <<ctxVars, wrapVars, notes, retvals, closeRets, closeCalls,
                 pairedClose, dialed, tlsHist, sessHist>>

\* Lines 216 and 230: return c.closeErr
ClientCloseReturn(t) ==
  /\ At(t, "wrapClientConn.Close", "ret")
  /\ retvals' = [retvals EXCEPT ![0] = @ \cup {CachedCloseErr(0)}]
  /\ closeRets' = [closeRets EXCEPT ![0] = @ + 1]
  /\ stack' = Return(t)
  /\ UNCHANGED <<ctxVars, wrapVars, panicked, notes, cascades, closeCalls,
                 pairedClose, dialed, tlsHist, sessHist>>

\* ------------------------------------------------- wrapServerConn.Close
StartServerClose(t, w) ==
  /\ Idle(t)
  /\ w \in 1..nWrap
  /\ closeCalls < MaxCloseCalls
  /\ closeCalls' = closeCalls + 1
  /\ pairedClose' = IF pairedClose = 0 /\ BothOpen THEN PairedWrapper ELSE pairedClose
  /\ stack' = [stack EXCEPT ![t] = <<Frame("wrapServerConn.Close", "check", w, "")>>]
  /\ UNCHANGED <<ctxVars, wrapVars, panicked, notes, retvals, closeRets, cascades,
                 dialed, tlsHist, sessHist>>

\* Line 262: if c.closed
ServerCloseCheck(t) ==
  /\ At(t, "wrapServerConn.Close", "check")
  /\ stack' = IF AlreadyClosed(Top(t).id) THEN Goto(t, "ret") ELSE Goto(t, "set")
  /\ UNCHANGED <<ctxVars, wrapVars, panicked, notes, closeHist, dialed, tlsHist,
                 sessHist>>

\* Line 266: c.closed = true
ServerCloseSet(t) ==
  /\ At(t, "wrapServerConn.Close", "set")
  /\ wrappers' = [wrappers EXCEPT ![Top(t).id] = MarkClosed(@)]
  /\ stack' = Goto(t, "close")
  /\ UNCHANGED <<ctxVars, nWrap, panicked, notes, closeHist, dialed, tlsHist,
                 sessHist>>

\* Line 267: c.closeErr = c.Conn.Close()
ServerCloseReal(t) ==
  /\ At(t, "wrapServerConn.Close", "close")
  /\ \E e \in RawClose(Top(t).id) :
       wrappers' = [wrappers EXCEPT ![Top(t).id].rawCloses = @ + 1,
                                    ![Top(t).id].rawErr = e,
                                    ![Top(t).id].closeErr = e]
  /\ stack' = IF NumAddons = 0 THEN Goto(t, "call") ELSE Goto(t, "notify")
  /\ UNCHANGED <<ctxVars, nWrap, panicked, notes, closeHist, dialed, tlsHist,
                 sessHist>>

\* Lines 269-271: one iteration of the loop over proxy.Addons
ServerCloseNotify(t) ==
  /\ At(t, "wrapServerConn.Close", "notify")
  /\ discNotes' = [discNotes EXCEPT ![Top(t).id][AddonAt(Top(t).i)] = @ + 1]
  /\ UNCHANGED connNotes
  /\ stack' = IF Top(t).i = NumAddons
                THEN Goto(t, "call")
                ELSE [stack EXCEPT ![t][Len(stack[t])].i = @ + 1]
  /\ UNCHANGED <<ctxVars, wrapVars, panicked, closeHist, dialed, tlsHist, sessHist>>

\* Line 273: c.connCtx.ClientConn.Conn.Close(); ClientConn.Conn is the
\* context's wrapClientConn (newConnContext, lines 65-70).
ServerCloseCascade(t) ==
  /\ At(t, "wrapServerConn.Close", "call")
  /\ stack' = Call(t, "ret", Frame("wrapClientConn.Close", "check", 0, ""))
  /\ cascades' = [cascades EXCEPT ![Top(t).id] = @ + 1]
  /\ UNCHANGED <<ctxVars, wrapVars, panicked, notes, retvals, closeRets, closeCalls,
                 pairedClose, dialed, tlsHist, sessHist>>

\* Lines 263 and 275: return c.closeErr
ServerCloseReturn(t) ==
  /\ At(t, "wrapServerConn.Close", "ret")
  /\ retvals' = [retvals EXCEPT ![Top(t).id] = @ \cup {CachedCloseErr(Top(t).id)}]
  /\ closeRets' = [closeRets EXCEPT ![Top(t).id] = @ + 1]
  /\ stack' = Return(t)
  /\ UNCHANGED <<ctxVars, wrapVars, panicked, notes, cascades, closeCalls,
                 pairedClose, dialed, tlsHist, sessHist>>

\* ---------------------------------------------- ConnContext.initServerTcpConn
\* Lines 121-123: a fresh ServerConn replaces connCtx.ServerConn and takes the
\* tunnel descriptor's host as its address.
StartInitServerTcpConn(t) ==
  /\ Idle(t)
  /\ nSC < MaxServerConns
  /\ nSC' = nSC + 1
  /\ ctxServerConn' = nSC + 1
  /\ serverConns' = [serverConns EXCEPT ![nSC + 1] =
                       [newServerConn EXCEPT !.Address = pipeHost]]
  /\ stack' = [stack EXCEPT ![t] =
                 <<Frame("initServerTcpConn", "dial", nSC + 1, "")>>]
  /\ UNCHANGED <<Tls, pipeHost, wrapVars, panicked, notes, closeHist, dialed, tlsHist,
                 sessHist>>

\* Line 126: if err != nil, for a dial that succeeded (ok) or not.
DialErrIgnored(ok) == FALSE
DialErrReturns(ok) == ~ok

\* Lines 125-128: the TCP dial; on an error the function returns it.
InitServerTcpConnDial(t) ==
  /\ At(t, "initServerTcpConn", "dial")
  /\ \E ok \in BOOLEAN :
       /\ dialed' = [dialed EXCEPT ![Top(t).id] = IF ok THEN "ok" ELSE "fail"]
       /\ IF DialErrReturns(ok)
            THEN /\ stack' = Return(t)
                 /\ tcpRets' = [tcpRets EXCEPT ![Top(t).id] = "EDial"]
            ELSE /\ stack' = Goto(t, "wrap")
                 /\ UNCHANGED tcpRets
  /\ UNCHANGED <<ctxVars, wrapVars, panicked, notes, closeHist, tlsHist,
                 attached, lastCfg, httpInits, httpRets>>

\* Lines 129-133: the dialled connection, wrapped, becomes ServerConn.Conn.
InitServerTcpConnWrap(t) ==
  /\ At(t, "initServerTcpConn", "wrap")
  /\ nWrap' = nWrap + 1
  /\ wrappers' = [wrappers EXCEPT ![nWrap + 1] = newWrapper]
  /\ serverConns' = [serverConns EXCEPT ![Top(t).id].Conn = nWrap + 1]
  /\ stack' = IF NumAddons = 0 THEN Return(t) ELSE Goto(t, "notify")
  /\ tcpRets' = IF NumAddons = 0 THEN [tcpRets EXCEPT ![Top(t).id] = "nil"] ELSE tcpRets
  /\ UNCHANGED <<Tls, pipeHost, ctxServerConn, nSC, panicked, notes, closeHist,
                 dialed, tlsHist, attached, lastCfg, httpInits, httpRets>>

\* Lines 135-139: one iteration of the loop over proxy.Addons, then return nil.
InitServerTcpConnNotify(t) ==
  /\ At(t, "initServerTcpConn", "notify")
  /\ connNotes' = [connNotes EXCEPT ![Top(t).id][AddonAt(Top(t).i)] = @ + 1]
  /\ UNCHANGED discNotes
  /\ stack' = IF Top(t).i = NumAddons
                THEN Return(t)
                ELSE [stack EXCEPT ![t][Len(stack[t])].i = @ + 1]
  /\ tcpRets' = IF Top(t).i = NumAddons
                  THEN [tcpRets EXCEPT ![Top(t).id] = "nil"] ELSE tcpRets
  /\ UNCHANGED <<ctxVars, wrapVars, panicked, closeHist, dialed, tlsHist,
                 attached, lastCfg, httpInits, httpRets>>

\* --------------------------------------------- ConnContext.initHttpServerConn
\* Lines 74-79: nothing is done when a ServerConn exists or the client is TLS.
InitHttpSkipsOnlyTls == Tls
InitHttpSkipsOnlySet == ctxServerConn # 0
InitHttpSkips == ctxServerConn # 0 \/ Tls

\* Lines 73-117, on the session's flow: a fresh ServerConn with the plain-HTTP
\* dispatch client becomes connCtx.ServerConn, unless the guards return first.
\* The count of the calls (httpInits) is kept by the specification that reads
\* it and left alone by the others.
InitHttpServerConn ==
  /\ Idle(1)
  /\ InitHttpSkips \/ nSC < MaxServerConns
  /\ IF InitHttpSkips
       THEN UNCHANGED <<ctxServerConn, nSC, serverConns>>
       ELSE /\ nSC' = nSC + 1
            /\ ctxServerConn' = nSC + 1
            /\ serverConns' = [serverConns EXCEPT ![nSC + 1] =
                                 [newServerConn EXCEPT !.client = "http"]]
  /\ UNCHANGED <<Tls, pipeHost, wrapVars, flowVars, notes, closeHist, dialed, tlsHist,
                 attached, tcpRets, lastCfg, httpRets>>

\* The statements of the dial step after a successful dial: lines 90-95, line
\* 96, the deferred loop of lines 97-101 (run when line 102 returns), and the
\* return to the transport.
HttpDialNotifyFirst == <<"notify", "setconn", "setaddr", "ret">>
HttpDialOrder == <<"setconn", "setaddr", "notify", "ret">>

\* The statement after pc; a loop over no addon is passed over.
HttpDialNext(pc) ==
  LET k == CHOOSE j \in 1..Len(HttpDialOrder) : HttpDialOrder[j] = pc
      nxt == HttpDialOrder[k + 1]
  IN IF nxt = "notify" /\ NumAddons = 0 THEN HttpDialOrder[k + 2] ELSE nxt

\* DialContext of the client built at lines 82-115: the transport calls it
\* with the address of an outbound request.  The closure holds the ServerConn
\* created with it (serverConn, line 81).
StartHttpDial(t) ==
  /\ Idle(t)
  /\ ctxServerConn # 0
  /\ serverConns[ctxServerConn].client = "http"
  /\ nWrap < MaxServerConns
  /\ \E addr \in Hosts :
       stack' = [stack EXCEPT ![t] = <<Frame("DialContext", "dial", ctxServerConn, addr)>>]
  /\ UNCHANGED <<ctxVars, wrapVars, panicked, notes, closeHist, dialed, tlsHist,
                 sessHist>>

\* Lines 86-89: the TCP dial; on an error the step returns it.  A dialled
\* connection is the next one of wrappers, wrapped at line 90.
HttpDialDial(t) ==
  /\ At(t, "DialContext", "dial")
  /\ \E ok \in BOOLEAN :
       IF ok
         THEN /\ nWrap' = nWrap + 1
              /\ wrappers' = [wrappers EXCEPT ![nWrap + 1] = newWrapper]
              /\ stack' = [stack EXCEPT ![t][Len(stack[t])] =
                             [@ EXCEPT !.pc = HttpDialOrder[1], !.conn = nWrap + 1]]
              /\ UNCHANGED httpRets
         ELSE /\ httpRets' = [httpRets EXCEPT ![Top(t).id] = @ \cup {<<0, "EDial">>}]
              /\ stack' = Return(t)
              /\ UNCHANGED wrapVars
  /\ UNCHANGED <<ctxVars, panicked, notes, closeHist, dialed, tlsHist,
                 attached, tcpRets, lastCfg, httpInits>>

\* Lines 90-95: serverConn.Conn = cw
HttpDialSetConn(t) ==
  /\ At(t, "DialContext", "setconn")
  /\ serverConns' = [serverConns EXCEPT ![Top(t).id].Conn = Top(t).conn]
  /\ stack' = Goto(t, HttpDialNext("setconn"))
  /\ UNCHANGED <<Tls, pipeHost, ctxServerConn, nSC, wrapVars, panicked, notes,
                 closeHist, dialed, tlsHist, sessHist>>

\* Line 96: serverConn.Address = addr
HttpDialSetAddr(t) ==
  /\ At(t, "DialContext", "setaddr")
  /\ serverConns' = [serverConns EXCEPT ![Top(t).id].Address = Top(t).arg]
  /\ stack' = Goto(t, HttpDialNext("setaddr"))
  /\ UNCHANGED <<Tls, pipeHost, ctxServerConn, nSC, wrapVars, panicked, notes,
                 closeHist, dialed, tlsHist, sessHist>>

\* Lines 97-101: one iteration of the deferred loop over proxy.Addons
HttpDialNotify(t) ==
  /\ At(t, "DialContext", "notify")
  /\ connNotes' = [connNotes EXCEPT ![Top(t).id][AddonAt(Top(t).i)] = @ + 1]
  /\ UNCHANGED discNotes
  /\ stack' = IF Top(t).i = NumAddons
                THEN [stack EXCEPT ![t][Len(stack[t])] =
                        [@ EXCEPT !.pc = HttpDialNext("notify"), !.i = 1]]
                ELSE [stack EXCEPT ![t][Len(stack[t])].i = @ + 1]
  /\ UNCHANGED <<ctxVars, wrapVars, panicked, closeHist, dialed, tlsHist, sessHist>>

\* Line 102: return cw, nil
HttpDialReturn(t) ==
  /\ At(t, "DialContext", "ret")
  /\ httpRets' = [httpRets EXCEPT ![Top(t).id] = @ \cup {<<Top(t).conn, "nil">>}]
  /\ stack' = Return(t)
  /\ UNCHANGED <<ctxVars, wrapVars, panicked, notes, closeHist, dialed, tlsHist,
                 attached, tcpRets, lastCfg, httpInits>>

HttpDialStep(t) ==
  \/ HttpDialDial(t)
  \/ HttpDialSetConn(t)
  \/ HttpDialSetAddr(t)
  \/ HttpDialNotify(t)
  \/ HttpDialReturn(t)

\* -------------------------------------------- ConnContext.initHttpsServerConn
\* Lines 142-161, on the session's flow: a no-op unless the client is TLS;
\* else the TLS dispatch client is stored on connCtx.ServerConn (a nil
\* ServerConn is a nil dereference at line 146).
InitHttpsServerConn ==
  /\ Idle(1)
  /\ IF ~Tls
       THEN UNCHANGED <<serverConns, flowVars>>
       ELSE IF ctxServerConn = 0
         THEN Panic(1) /\ UNCHANGED serverConns
         ELSE /\ serverConns' = [serverConns EXCEPT ![ctxServerConn].client = "https"]
              /\ UNCHANGED flowVars
  /\ UNCHANGED <<Tls, pipeHost, ctxServerConn, nSC, wrapVars, notes, closeHist,
                 dialed, tlsHist, sessHist>>

\* ClientConn.Tls is set, once, when interception of the session begins.
MarkTls ==
  /\ Idle(1)
  /\ ~Tls
  /\ Tls' = TRUE
  /\ UNCHANGED <<pipeHost, ctxServerConn, nSC, serverConns, wrapVars, flowVars,
                 notes, closeHist, dialed, tlsHist, sessHist>>

\* ------------------------------------------------ ConnContext.getCertificate
\* The statements after a failed handshake (lines 190, 191, 192), in order.
FailOrderFireFirst == <<"fireErr", "seterr", "reterr">>
FailOrder == <<"seterr", "fireErr", "reterr">>

\* The statements after a successful handshake (lines 195, 196-197, 198, 201),
\* in order.
OkOrderFireFirst == <<"fireOk", "setconn", "setstate", "getcert">>
OkOrder == <<"setconn", "setstate", "fireOk", "getcert">>

\* The statement that follows statement pc in its path.
After(order, pc) ==
  order[(CHOOSE k \in 1..Len(order) : order[k] = pc) + 1]
Follow(pc) ==
  IF \E k \in 1..Len(FailOrder) : FailOrder[k] = pc
    THEN After(FailOrder, pc) ELSE After(OkOrder, pc)

\* What tls.Client(conn).HandshakeContext can come to (line 188): a handshake
\* over an open connection succeeds or fails; over a closed one it fails; over
\* a nil net.Conn the first write is a nil-interface call.
HandshakeOutcomes(s) ==
  IF serverConns[s].Conn = 0 THEN {"panic"}
  ELSE IF wrappers[serverConns[s].Conn].rawCloses > 0 THEN {"fail"}
  ELSE {"ok", "fail"}

\* tls.ClientHelloInfo, the fields getCertificate reads: the requested name,
\* the offered cipher suites and the offered versions (uint16 codes, TLS 1.0
\* to TLS 1.3), as lists in the client's order.
TlsVersions == 769..772
VersionLists == UNION {[1..n -> TlsVersions] : n \in 0..MaxVersions}
CipherLists == {<<>>, <<"A", "B">>, <<"B", "A">>}
ClientHellos ==
  [ServerName : Names, CipherSuites : CipherLists, SupportedVersions : VersionLists]

\* The greeting of an ordinary session: TLS 1.2 and 1.3, suites A and B.
SessionHellos ==
  {h \in ClientHellos :
     h.CipherSuites = <<"A", "B">> /\ h.SupportedVersions = <<771, 772>>}

\* Lines 176-178 and 179-181: one iteration's update of minVersion and
\* maxVersion.
LowerVersionSwapped(version, minVersion) ==
  IF version > minVersion THEN version ELSE minVersion
LowerVersion(version, minVersion) ==
  IF version < minVersion THEN version ELSE minVersion
HigherVersion(version, maxVersion) ==
  IF version > maxVersion THEN version ELSE maxVersion

\* Lines 173-182: the loop over SupportedVersions from element k on, with the
\* running minimum and maximum; both start at the first element.
RECURSIVE ScanVersions(_, _, _, _)
ScanVersions(versions, k, minVersion, maxVersion) ==
  IF k > Len(versions)
    THEN <<minVersion, maxVersion>>
    ELSE ScanVersions(versions, k + 1, LowerVersion(versions[k], minVersion),
                      HigherVersion(versions[k], maxVersion))

\* Lines 164-185: the tls.Config of the upstream handshake; MinVersion and
\* MaxVersion keep the zero value when the client offered no version list.
UpstreamConfig(hello) ==
  LET versions == hello.SupportedVersions
      range == IF Len(versions) > 0
                 THEN ScanVersions(versions, 1, versions[1], versions[1])
                 ELSE <<0, 0>>
  IN [ServerName |-> hello.ServerName,
      NextProtos |-> <<"http/1.1">>,
      CipherSuites |-> hello.CipherSuites,
      MinVersion |-> range[1],
      MaxVersion |-> range[2]]

\* The client-facing handshake asks for a certificate with one of the
\* greetings hellos; limit is how many times it may ask in one session.
\* Lines 164-185 touch no shared memory and are one step.
StartGetCertificateWith(t, limit, hellos) ==
  /\ Idle(t)
  /\ Len(gcCalls) < limit
  /\ \E hello \in hellos :
       /\ gcCalls' = Append(gcCalls, hello.ServerName)
       /\ lastCfg' = <<[hello |-> hello, cfg |-> UpstreamConfig(hello)]>>
       /\ stack' = [stack EXCEPT ![t] =
                      <<Frame("getCertificate", "handshake", 0, hello.ServerName)>>]
  /\ UNCHANGED <<ctxVars, wrapVars, panicked, notes, closeHist, dialed, hsAttempts,
                 hsOutcome, fireAttempts, caCalls, gcRets, tlsRets, dialTlsRets,
                 attached, tcpRets, httpInits, httpRets>>

StartGetCertificate(t, limit) == StartGetCertificateWith(t, limit, SessionHellos)

\* Lines 187-189: the upstream handshake over connCtx.ServerConn.Conn; a nil
\* ServerConn is a nil dereference.  The frame keeps the handshake's number.
GetCertHandshake(t) ==
  /\ At(t, "getCertificate", "handshake")
  /\ IF ctxServerConn = 0
       THEN Panic(t) /\ UNCHANGED <<hsAttempts, hsOutcome>>
       ELSE \E out \in HandshakeOutcomes(ctxServerConn) :
              /\ hsAttempts' = [hsAttempts EXCEPT ![ctxServerConn] = @ + 1]
              /\ IF out = "panic"
                   THEN Panic(t) /\ UNCHANGED hsOutcome
                   ELSE /\ hsOutcome' = [hsOutcome EXCEPT ![ctxServerConn] = out]
                        /\ stack' = [stack EXCEPT ![t][Len(stack[t])] =
                             [@ EXCEPT !.pc = IF out = "ok" THEN OkOrder[1]
                                                            ELSE FailOrder[1],
                                       !.i = hsAttempts[ctxServerConn] + 1]]
                        /\ UNCHANGED panicked
  /\ UNCHANGED <<ctxVars, wrapVars, notes, closeHist, dialed, fireAttempts, caCalls,
                 gcCalls, gcRets, tlsRets, dialTlsRets, sessHist>>

\* What a failed handshake leaves on the ServerConn sc (line 190): the error,
\* and neither the session nor its state.
CachedOnFailureWithConn(sc) ==
  [sc EXCEPT !.tlsHandshakeErr = "EHandshake", !.tlsConn = 1]
CachedOnFailure(sc) == [sc EXCEPT !.tlsHandshakeErr = "EHandshake"]

\* Line 190: connCtx.ServerConn.tlsHandshakeErr = err
GetCertSetErr(t) ==
  /\ At(t, "getCertificate", "seterr")
  /\ serverConns' = [serverConns EXCEPT ![ctxServerConn] = CachedOnFailure(@)]
  /\ stack' = Goto(t, Follow("seterr"))
  /\ UNCHANGED <<Tls, pipeHost, ctxServerConn, nSC, wrapVars, panicked, notes,
                 closeHist, dialed, tlsHist, sessHist>>

\* Lines 191 and 198: close(connCtx.ServerConn.tlsHandshaked); closing a
\* closed channel is a run-time panic.
GetCertFire(t) ==
  /\ At(t, "getCertificate", "fireErr") \/ At(t, "getCertificate", "fireOk")
  /\ fireAttempts' = [fireAttempts EXCEPT ![ctxServerConn] = @ + 1]
  /\ IF serverConns[ctxServerConn].tlsHandshaked
       THEN Panic(t) /\ UNCHANGED serverConns
       ELSE /\ serverConns' = [serverConns EXCEPT ![ctxServerConn].tlsHandshaked = TRUE]
            /\ stack' = Goto(t, Follow(Top(t).pc))
            /\ UNCHANGED panicked
  /\ UNCHANGED <<Tls, pipeHost, ctxServerConn, nSC, wrapVars, notes, closeHist, dialed,
                 hsAttempts, hsOutcome, caCalls, gcCalls, gcRets, tlsRets, dialTlsRets,
                 sessHist>>

\* Line 192: return nil, err
GetCertReturnErr(t) ==
  /\ At(t, "getCertificate", "reterr")
  /\ gcRets' = gcRets \cup {<<"nil", "EHandshake">>}
  /\ stack' = Return(t)
  /\ UNCHANGED <<ctxVars, wrapVars, panicked, notes, closeHist, dialed, hsAttempts,
                 hsOutcome, fireAttempts, caCalls, gcCalls, tlsRets, dialTlsRets,
                 sessHist>>

\* Line 195: connCtx.ServerConn.tlsConn = tlsConn
GetCertSetConn(t) ==
  /\ At(t, "getCertificate", "setconn")
  /\ serverConns' = [serverConns EXCEPT ![ctxServerConn].tlsConn = Top(t).i]
  /\ stack' = Goto(t, Follow("setconn"))
  /\ UNCHANGED <<Tls, pipeHost, ctxServerConn, nSC, wrapVars, panicked, notes,
                 closeHist, dialed, tlsHist, sessHist>>

\* Lines 196-197: the session's ConnectionState, snapshotted, is cached.
GetCertSetState(t) ==
  /\ At(t, "getCertificate", "setstate")
  /\ serverConns' = [serverConns EXCEPT ![ctxServerConn].tlsState = Top(t).i]
  /\ stack' = Goto(t, Follow("setstate"))
  /\ UNCHANGED <<Tls, pipeHost, ctxServerConn, nSC, wrapVars, panicked, notes,
                 closeHist, dialed, tlsHist, sessHist>>

\* Line 201: return ca.GetCert(clientHello.ServerName): the authority issues
\* the leaf certificate for the name, or fails.
GetCertIssue(t) ==
  /\ At(t, "getCertificate", "getcert")
  /\ caCalls' = Append(caCalls, Top(t).arg)
  /\ \E r \in {<<Top(t).arg, "nil">>, <<"nil", "ECA">>} : gcRets' = gcRets \cup {r}
  /\ stack' = Return(t)
  /\ UNCHANGED <<ctxVars, wrapVars, panicked, notes, closeHist, dialed, hsAttempts,
                 hsOutcome, fireAttempts, gcCalls, tlsRets, dialTlsRets,
                 sessHist>>

\* ------------------------------------------------------ the rendezvous waiters
\* Lines 49 and 150: a receive from tlsHandshaked completes once it is closed.
HandshakeDoneNoWait(s) == TRUE
HandshakeDone(s) == serverConns[s].tlsHandshaked

\* ServerConn.TlsState, lines 48-51, called on the ServerConn the context
\* holds at the time of the call.
StartTlsState(t) ==
  /\ Idle(t)
  /\ ctxServerConn # 0
  /\ stack' = [stack EXCEPT ![t] = <<Frame("TlsState", "wait", ctxServerConn, "")>>]
  /\ UNCHANGED <<ctxVars, wrapVars, panicked, notes, closeHist, dialed, tlsHist,
                 sessHist>>

\* Line 49: <-c.tlsHandshaked
TlsStateWait(t) ==
  /\ At(t, "TlsState", "wait")
  /\ HandshakeDone(Top(t).id)
  /\ stack' = Goto(t, "ret")
  /\ UNCHANGED <<ctxVars, wrapVars, panicked, notes, closeHist, dialed, tlsHist,
                 sessHist>>

\* Line 50: return c.tlsState
TlsStateReturn(t) ==
  /\ At(t, "TlsState", "ret")
  /\ tlsRets' = [tlsRets EXCEPT ![Top(t).id] = @ \cup {serverConns[Top(t).id].tlsState}]
  /\ stack' = Return(t)
  /\ UNCHANGED <<ctxVars, wrapVars, panicked, notes, closeHist, dialed, hsAttempts,
                 hsOutcome, fireAttempts, caCalls, gcCalls, gcRets, dialTlsRets,
                 sessHist>>

\* The upstream handshakes on record once the dial step of the TLS dispatch
\* client has run (lines 149-152): the step performs none.
RedialHandshakes(s) == [hsAttempts EXCEPT ![s] = @ + 1]
DialTLSHandshakes(s) == hsAttempts

\* DialTLSContext of the client built by initHttpsServerConn: the transport
\* calls it for an outbound request; the channel operand of line 150 is read.
StartDialTLSContext(t) ==
  /\ Idle(t)
  /\ ctxServerConn # 0
  /\ serverConns[ctxServerConn].client = "https"
  /\ stack' = [stack EXCEPT ![t] = <<Frame("DialTLSContext", "wait", ctxServerConn, "")>>]
  /\ UNCHANGED <<ctxVars, wrapVars, panicked, notes, closeHist, dialed, tlsHist,
                 sessHist>>

\* Line 150: <-connCtx.ServerConn.tlsHandshaked
DialTLSContextWait(t) ==
  /\ At(t, "DialTLSContext", "wait")
  /\ HandshakeDone(Top(t).id)
  /\ stack' = Goto(t, "ret")
  /\ UNCHANGED <<ctxVars, wrapVars, panicked, notes, closeHist, dialed, tlsHist,
                 sessHist>>

\* Line 151: return connCtx.ServerConn.tlsConn, connCtx.ServerConn.tlsHandshakeErr
DialTLSContextReturn(t) ==
  /\ At(t, "DialTLSContext", "ret")
  /\ dialTlsRets' = dialTlsRets \cup {<<serverConns[ctxServerConn].tlsConn,
                                        serverConns[ctxServerConn].tlsHandshakeErr>>}
  /\ hsAttempts' = DialTLSHandshakes(ctxServerConn)
  /\ stack' = Return(t)
  /\ UNCHANGED <<ctxVars, wrapVars, panicked, notes, closeHist, dialed, hsOutcome,
                 fireAttempts, caCalls, gcCalls, gcRets, tlsRets, sessHist>>

GetCertStep(t) ==
  \/ GetCertHandshake(t)
  \/ GetCertSetErr(t)
  \/ GetCertFire(t)
  \/ GetCertReturnErr(t)
  \/ GetCertSetConn(t)
  \/ GetCertSetState(t)
  \/ GetCertIssue(t)

WaitStep(t) ==
  \/ TlsStateWait(t)
  \/ TlsStateReturn(t)
  \/ DialTLSContextWait(t)
  \/ DialTLSContextReturn(t)

\* ------------------------------------------------------- the close cascade
CloseStep(t) ==
  \/ ClientCloseCheck(t)
  \/ ClientCloseSet(t)
  \/ ClientCloseReal(t)
  \/ ClientCloseNotify(t)
  \/ ClientCloseCascadeTest(t)
  \/ ClientCloseCascade(t)
  \/ ClientCloseReturn(t)
  \/ ServerCloseCheck(t)
  \/ ServerCloseSet(t)
  \/ ServerCloseReal(t)
  \/ ServerCloseNotify(t)
  \/ ServerCloseCascade(t)
  \/ ServerCloseReturn(t)

TcpStep(t) ==
  \/ InitServerTcpConnDial(t)
  \/ InitServerTcpConnWrap(t)
  \/ InitServerTcpConnNotify(t)

\* The session's own flow opens the tunnel; any flow may close either side,
\* and the flows interleave statement by statement.
NextClose ==
  \/ StartInitServerTcpConn(1)
  \/ \E t \in Flows : StartClientClose(t)
  \/ \E t \in Flows : \E w \in ServerWrappers : StartServerClose(t, w)
  \/ \E t \in Flows : CloseStep(t)
  \/ \E t \in Flows : TcpStep(t)

SpecClose == InitOneHost /\ [][NextClose]_vars

\* Tunnel mode: the session's flow opens the tunnel while any flow may close
\* the client wrapper, the server side being closed by the cascade alone.
NextTunnel ==
  \/ StartInitServerTcpConn(1)
  \/ \E t \in Flows : StartClientClose(t)
  \/ \E t \in Flows : CloseStep(t)
  \/ \E t \in Flows : TcpStep(t)

SpecTunnel == InitOneHost /\ [][NextTunnel]_vars

\* The same operations, one call at a time: a call starts only when no other
\* call is in flight.
NextSeq ==
  \/ AllIdle /\ StartInitServerTcpConn(1)
  \/ AllIdle /\ \E t \in Flows : StartClientClose(t)
  \/ AllIdle /\ \E t \in Flows : \E w \in ServerWrappers : StartServerClose(t, w)
  \/ \E t \in Flows : CloseStep(t)
  \/ \E t \in Flows : TcpStep(t)

SpecSeq == Init /\ [][NextSeq]_vars

\* A call under way keeps running: the flow executing it is not suspended
\* for ever.  Nothing obliges a caller to start a call.
FairSeq == SpecSeq /\ \A t \in Flows : WF_vars(CloseStep(t) \/ TcpStep(t))

\* Plain-HTTP mode, one call at a time: the dispatch client is built, the
\* transport dials for outbound requests, then the client side is closed.
NextHttp ==
  \/ AllIdle /\ InitHttpServerConn /\ UNCHANGED httpInits
  \/ AllIdle /\ closeCalls = 0 /\ \E t \in Flows : StartHttpDial(t)
  \/ AllIdle /\ \E t \in Flows : StartClientClose(t)
  \/ \E t \in Flows : HttpDialStep(t)
  \/ \E t \in Flows : CloseStep(t)

SpecHttp == InitOneHost /\ [][NextHttp]_vars

\* From the listener's Accept on, one call at a time: the wrapper is closed
\* as it is, or attached to its context first; the tunnel is opened on the
\* context, and the client wrapper is closed.
NextAccept ==
  \/ AttachConnContext
  \/ attached /\ AllIdle /\ StartInitServerTcpConn(1)
  \/ AllIdle /\ \E t \in Flows : StartClientClose(t)
  \/ \E t \in Flows : CloseStep(t)
  \/ \E t \in Flows : TcpStep(t)

SpecAccept == Accepted /\ [][NextAccept]_vars

\* The init operations of one context, called one after another by the
\* session's flow in any order and any number of times.
NextInit ==
  \/ MarkTls
  \/ httpInits < MaxHttpInits /\ InitHttpServerConn /\ httpInits' = httpInits + 1
  \/ StartInitServerTcpConn(1)
  \/ InitHttpsServerConn
  \/ TcpStep(1)

SpecInit == Init /\ [][NextInit]_vars

\* The certificate callback on a tunnel the session opened, for any greeting.
NextCfg ==
  \/ nSC = 0 /\ StartInitServerTcpConn(1)
  \/ TcpStep(1)
  \/ StartGetCertificateWith(1, 1, ClientHellos)
  \/ GetCertStep(1)

SpecCfg == InitOneHost /\ [][NextCfg]_vars

\* ------------------------------------------------ the interception session
\* The session's own flow (flow 1) runs the init operations and the
\* certificate callback one after another; the other flows are the ones that
\* await the handshake.  The client-facing handshake asks for a certificate
\* once in a session.
SessionStart ==
  \/ MarkTls
  \/ InitHttpServerConn /\ UNCHANGED httpInits
  \/ StartInitServerTcpConn(1)
  \/ InitHttpsServerConn

WaiterStart ==
  \/ \E t \in Flows \ {1} : StartTlsState(t)
  \/ \E t \in Flows \ {1} : StartDialTLSContext(t)

FlowStep(t) == TcpStep(t) \/ GetCertStep(t) \/ WaitStep(t)

Next ==
  \/ SessionStart
  \/ StartGetCertificate(1, 1)
  \/ WaiterStart
  \/ \E t \in Flows : FlowStep(t)

Spec == InitOneHost /\ [][Next]_vars

\* A flow that can take a step eventually takes one; nothing obliges a
\* caller to start an operation.
FairSpec == Spec /\ \A t \in Flows : WF_vars(FlowStep(t))

\* The certificate callback invoked again on the same context.
NextReinvoke ==
  \/ SessionStart
  \/ StartGetCertificate(1, MaxGetCert)
  \/ WaiterStart
  \/ \E t \in Flows : FlowStep(t)

SpecReinvoke == InitOneHost /\ [][NextReinvoke]_vars

\* ===================================================================== claims
\* C1 (as claimed): under any interleaving of concurrent Close calls, the
\* wrapped connection of every wrapper is really closed at most once and the
\* wrapper's disconnect event reaches each addon at most once.
C1_AtMostOneCloseAndNotice ==
  \A w \in Wrappers :
    /\ wrappers[w].rawCloses <= 1
    /\ \A a \in Addons : discNotes[w][a] <= 1

\* C2 (as claimed): once every Close call has returned after a Close started
\* on a paired context with both sides open (and the pair still stands), the
\* client connection and the paired server connection have
\* each been really closed exactly once, and ClientDisconnected and
\* ServerDisconnected have each reached every addon exactly once.
C2_CascadeExactlyOnce ==
  (/\ pairedClose # 0
   /\ PairedWrapper = pairedClose
   /\ AllIdle
   /\ \A t \in Flows : ~panicked[t]) =>
    /\ wrappers[0].rawCloses = 1
    /\ wrappers[pairedClose].rawCloses = 1
    /\ \A a \in Addons : discNotes[0][a] = 1 /\ discNotes[pairedClose][a] = 1

\* C3: with Close calls made one after another on the client wrapper, the
\* wrapped connection is closed once, ClientDisconnected reaches each addon
\* once and the server side is cascaded to at most once, all by the first
\* call; and every call returns the one error the real close produced.
C3_SequentialCloseIdempotent ==
  /\ wrappers[0].rawCloses <= 1
  /\ cascades[0] <= 1
  /\ \A a \in Addons : discNotes[0][a] <= 1
  /\ closeRets[0] >= 1 =>
       /\ wrappers[0].rawCloses = 1
       /\ \A a \in Addons : discNotes[0][a] = 1
       /\ retvals[0] = {wrappers[0].rawErr}

\* C3 witness: two Close calls on the client wrapper have returned, the real
\* close having failed, with the server side cascaded to.
C3_Witness ==
  /\ AllIdle
  /\ closeRets[0] >= 2
  /\ wrappers[0].rawErr = "EIO"
  /\ cascades[0] = 1

InGetCertificate(t) == stack[t] # <<>> /\ Top(t).op = "getCertificate"
Fired(s) == serverConns[s].tlsHandshaked

\* C4 (as claimed): for every ServerConn the rendezvous signal is fired by
\* exactly one close statement, also when getCertificate runs again on the
\* same ServerConn: no second close(tlsHandshaked) is ever executed, and once
\* a handshake attempt has been seen through the signal has fired.
C4_SignalFiredOnce ==
  \A s \in SCIds :
    /\ fireAttempts[s] <= 1
    /\ Fired(s) <=> fireAttempts[s] = 1
    /\ (hsOutcome[s] # "none" /\ Idle(1)) => Fired(s)

C6_FailureAlwaysSignalled ==
  /\ \A s \in SCIds :
       (dialed[s] = "fail" \/ hsOutcome[s] = "fail") ~> Fired(s)
  /\ \A t \in Flows :
       ((At(t, "TlsState", "wait") \/ At(t, "DialTLSContext", "wait"))
          /\ dialed[Top(t).id] = "fail")
       ~> ~(At(t, "TlsState", "wait") \/ At(t, "DialTLSContext", "wait"))

\* The half of C6 that the handshake failure path keeps.
HandshakeFailureSignalled ==
  \A s \in SCIds : (hsOutcome[s] = "fail") ~> Fired(s)

RECURSIVE TotalAttempts(_)
TotalAttempts(n) == IF n = 0 THEN 0 ELSE hsAttempts[n] + TotalAttempts(n - 1)

C8_FailedHandshake ==
  /\ \A s \in SCIds :
       hsOutcome[s] = "fail" =>
         /\ Fired(s) => serverConns[s].tlsHandshakeErr = "EHandshake"
         /\ serverConns[s].tlsConn = 0
         /\ serverConns[s].tlsState = 0
  /\ (\E s \in SCIds : hsOutcome[s] = "fail") =>
         /\ caCalls = <<>>
         /\ gcRets \subseteq {<<"nil", "EHandshake">>}

\* C8 witness: getCertificate has returned the handshake error, the signal
\* fired with the error cached.
C8_Witness ==
  /\ gcRets = {<<"nil", "EHandshake">>}
  /\ \E s \in SCIds :
       hsOutcome[s] = "fail" /\ Fired(s) /\ serverConns[s].tlsHandshakeErr = "EHandshake"

\* C9: after a successful upstream handshake the session and its state are
\* cached by the time the signal has fired, the authority is asked only after
\* the signal has fired for a successful handshake, it is asked with the
\* name the client requested, and exactly once when getCertificate is done.
C9_SuccessfulHandshake ==
  /\ \A s \in SCIds :
       (hsOutcome[s] = "ok" /\ Fired(s)) =>
         /\ serverConns[s].tlsConn = hsAttempts[s]
         /\ serverConns[s].tlsState = hsAttempts[s]
  /\ caCalls # <<>> => \E s \in SCIds : hsOutcome[s] = "ok" /\ Fired(s)
  /\ Len(caCalls) <= 1
  /\ \A k \in 1..Len(caCalls) : caCalls[k] = gcCalls[k]
  /\ (Idle(1) /\ \E s \in SCIds : hsOutcome[s] = "ok") => Len(caCalls) = 1

\* C9 witness: getCertificate has returned the certificate issued for the
\* requested name after a successful handshake.
C9_Witness ==
  /\ Idle(1)
  /\ caCalls = <<"b.example">>
  /\ gcRets = {<<"b.example", "nil">>}
  /\ \E s \in SCIds : hsOutcome[s] = "ok" /\ Fired(s)

\* C10 (as claimed): once connCtx.ServerConn refers to an instance, no init
\* operation makes it refer to anything else.
C10_NeverReplaced ==
  [][ctxServerConn # 0 => ctxServerConn' = ctxServerConn]_vars

\* C10 (amended): connCtx.ServerConn changes only to a freshly created
\* instance, and a set ServerConn is changed by initServerTcpConn alone:
\* initHttpServerConn and initHttpsServerConn never replace it.
C10_OnlyTunnelInitReplaces ==
  [][ctxServerConn' # ctxServerConn =>
       /\ nSC' = nSC + 1
       /\ ctxServerConn' = nSC'
       /\ ctxServerConn # 0 => At(1, "initServerTcpConn", "dial")']_vars

\* C10 witness: initHttpServerConn set the ServerConn and a later
\* initServerTcpConn replaced it.
C10_Witness ==
  /\ ctxServerConn = 2
  /\ serverConns[1].client = "http"
  /\ Idle(1)

\* C11: a call of initHttpServerConn made when a ServerConn exists or the
\* client is flagged TLS changes neither connCtx.ServerConn nor any field of
\* any ServerConn (the dispatch client included); a call made otherwise
\* installs a fresh instance carrying the plain-HTTP client; and after any
\* call the guards hold, so that a second call changes nothing.
C11_InitHttpIdempotent ==
  [][httpInits' # httpInits =>
       /\ (ctxServerConn # 0 \/ Tls) =>
            /\ ctxServerConn' = ctxServerConn
            /\ serverConns' = serverConns
            /\ nSC' = nSC
       /\ (ctxServerConn = 0 /\ ~Tls) =>
            /\ ctxServerConn' = nSC + 1
            /\ serverConns'[ctxServerConn'] = [newServerConn EXCEPT !.client = "http"]
       /\ ctxServerConn' # 0 \/ Tls']_vars

\* C11 witness: three calls were made, the first on a plain context, and the
\* context still holds the instance of the first call with its HTTP client,
\* the client having been flagged TLS since.
C11_Witness ==
  /\ httpInits = 3
  /\ nSC = 1
  /\ ctxServerConn = 1
  /\ serverConns[1].client = "http"
  /\ Tls

\* A flow is inside the initServerTcpConn call that created ServerConn s.
InTunnelInit(s) ==
  \E t \in Flows :
    stack[t] # <<>> /\ Top(t).op = "initServerTcpConn" /\ Top(t).id = s

\* C12: every initServerTcpConn call gives its new ServerConn the tunnel
\* descriptor's host as Address; ServerConnected reaches an addon at most
\* once, and only after a dial that succeeded and was wrapped; a call that
\* returned nil dialled successfully, left a wrapped connection on the
\* ServerConn and notified every addon exactly once; a call that returned
\* the dial error notified no addon and left the ServerConn without a
\* connection; and a dial that failed never leads to a notification.
C12_TunnelInit ==
  \A s \in SCIds :
    /\ (InTunnelInit(s) \/ dialed[s] # "none") => serverConns[s].Address = pipeHost
    /\ \A a \in Addons :
         /\ connNotes[s][a] <= 1
         /\ connNotes[s][a] = 1 =>
              dialed[s] = "ok" /\ serverConns[s].Conn \in ServerWrappers
    /\ tcpRets[s] = "nil" =>
         /\ dialed[s] = "ok"
         /\ serverConns[s].Conn \in ServerWrappers
         /\ \A a \in Addons : connNotes[s][a] = 1
    /\ tcpRets[s] = "EDial" =>
         /\ dialed[s] = "fail"
         /\ serverConns[s].Conn = 0
         /\ \A a \in Addons : connNotes[s][a] = 0
    /\ dialed[s] = "fail" => tcpRets[s] = "EDial"
    /\ (dialed[s] = "ok" /\ ~InTunnelInit(s)) => tcpRets[s] = "nil"

\* C12 witness: toward the host b.example:9000 one call failed to dial and
\* the next one succeeded, every addon notified once of the second.
C12_Witness ==
  /\ pipeHost = "b.example:9000"
  /\ tcpRets[1] = "EDial"
  /\ tcpRets[2] = "nil"
  /\ serverConns[2].Address = "b.example:9000"
  /\ \A a \in Addons : connNotes[2][a] = 1

\* The least and the greatest element of a non-empty list, whatever its order.
ListMin(versions) ==
  CHOOSE m \in TlsVersions :
    /\ \E k \in 1..Len(versions) : versions[k] = m
    /\ \A k \in 1..Len(versions) : m <= versions[k]
ListMax(versions) ==
  CHOOSE m \in TlsVersions :
    /\ \E k \in 1..Len(versions) : versions[k] = m
    /\ \A k \in 1..Len(versions) : m >= versions[k]

\* C13: for a greeting with a non-empty list of supported versions, in any
\* order and with repeats, the configuration of the upstream handshake has
\* MinVersion the least and MaxVersion the greatest version of the list,
\* MinVersion <= MaxVersion, the cipher suites of the greeting as offered and
\* the requested name of the greeting.
C13_UpstreamConfig ==
  \A k \in 1..Len(lastCfg) :
    LET hello == lastCfg[k].hello
        cfg == lastCfg[k].cfg
    IN /\ cfg.CipherSuites = hello.CipherSuites
       /\ cfg.ServerName = hello.ServerName
       /\ Len(hello.SupportedVersions) > 0 =>
            /\ cfg.MinVersion = ListMin(hello.SupportedVersions)
            /\ cfg.MaxVersion = ListMax(hello.SupportedVersions)
            /\ cfg.MinVersion <= cfg.MaxVersion

\* C13 witness: the upstream handshake ran with the configuration built from
\* a greeting that lists TLS 1.3, TLS 1.0, TLS 1.3 in this order.
C13_Witness ==
  /\ lastCfg # <<>>
  /\ lastCfg[1].hello.SupportedVersions = <<772, 769, 772>>
  /\ lastCfg[1].cfg.MinVersion = 769
  /\ lastCfg[1].cfg.MaxVersion = 772
  /\ \E s \in SCIds : hsOutcome[s] = "ok"

\* A Close call on wrapper w has set the closed flag and has not yet left the
\* loop over the addons.
InCloseLoop(w) ==
  \E t \in Flows : \E k \in 1..Len(stack[t]) :
    /\ stack[t][k].op \in {"wrapClientConn.Close", "wrapServerConn.Close"}
    /\ stack[t][k].id = w
    /\ stack[t][k].pc \in {"close", "notify"}

\* C14: for each of the three events the addons are called in registration
\* order by the flow that runs the loop: an addon has never been called more
\* often than the one registered before it, a loop that is at its i-th
\* iteration has called every addon registered before the i-th, and once the
\* loop is over (Close past its loop, initServerTcpConn returned nil) every
\* registered addon has been called.
C14_AddonsInOrder ==
  /\ \A a \in Addons \ {NumAddons} :
       /\ \A w \in Wrappers : discNotes[w][a] >= discNotes[w][a + 1]
       /\ \A s \in SCIds : connNotes[s][a] >= connNotes[s][a + 1]
  /\ \A t \in Flows : \A k \in 1..Len(stack[t]) :
       stack[t][k].pc = "notify" =>
         \A a \in 1..(stack[t][k].i - 1) :
           IF stack[t][k].op = "initServerTcpConn"
             THEN connNotes[stack[t][k].id][a] >= 1
             ELSE discNotes[stack[t][k].id][a] >= 1
  /\ \A w \in Wrappers :
       (wrappers[w].closed /\ ~InCloseLoop(w)) => \A a \in Addons : discNotes[w][a] >= 1
  /\ \A s \in SCIds :
       tcpRets[s] = "nil" => \A a \in Addons : connNotes[s][a] >= 1

\* C14 witness: all three events have reached every addon, the tunnel opened
\* and then closed from the client side.
C14_Witness ==
  /\ AllIdle
  /\ \E s \in SCIds : \A a \in Addons :
       /\ connNotes[s][a] = 1
       /\ discNotes[0][a] = 1
       /\ serverConns[s].Conn # 0
       /\ discNotes[serverConns[s].Conn][a] = 1

\* C15 (as claimed): once a Close of the client wrapper has returned, all
\* dial steps of the plain-HTTP client having run before it, every
\* server-side connection the context opened has been closed.
C15_NoServerHalfOpen ==
  (closeRets[0] >= 1 /\ AllIdle) =>
    \A w \in 1..nWrap : wrappers[w].rawCloses >= 1

\* C16: in the plain-HTTP dial step, a flow that is at the ServerConnected
\* loop, or past it, finds the connection it dialled and the address it was
\* given recorded on the ServerConn; no addon is notified unless a connection
\* is recorded; a step that returned a connection had notified every addon
\* by then; while all dials have failed, nothing is recorded and no addon is
\* notified; and the step that returns the dial error changes no ServerConn
\* and delivers nothing.
C16_HttpDialOrder ==
  /\ [](\A s \in SCIds :
         /\ \A t \in Flows :
              ((At(t, "DialContext", "notify") \/ At(t, "DialContext", "ret"))
                 /\ Top(t).id = s) =>
                /\ serverConns[s].Conn = Top(t).conn
                /\ serverConns[s].Address = Top(t).arg
         /\ \A a \in Addons :
              connNotes[s][a] >= 1 =>
                serverConns[s].Conn # 0 /\ serverConns[s].Address \in Hosts
         /\ \A r \in httpRets[s] :
              r[2] = "nil" =>
                r[1] \in ServerWrappers /\ \A a \in Addons : connNotes[s][a] >= 1
         /\ (httpRets[s] = {<<0, "EDial">>} /\ AllIdle) =>
              /\ serverConns[s].Conn = 0
              /\ serverConns[s].Address = ""
              /\ \A a \in Addons : connNotes[s][a] = 0)
  /\ [][\A t \in Flows :
          (At(t, "DialContext", "dial") /\ stack'[t] = <<>>) =>
            /\ serverConns' = serverConns
            /\ connNotes' = connNotes
            /\ <<0, "EDial">> \in httpRets'[Top(t).id]]_vars

\* C16 witness: on one ServerConn a dial failed and a later one succeeded,
\* toward b.example:9000, every addon notified once.
C16_Witness ==
  /\ AllIdle
  /\ httpRets[1] = {<<0, "EDial">>, <<1, "nil">>}
  /\ serverConns[1].Conn = 1
  /\ serverConns[1].Address = "b.example:9000"
  /\ \A a \in Addons : connNotes[1][a] = 1

\* The three cached fields of ServerConn s.
CachedOutcome(s) ==
  <<serverConns[s].tlsHandshakeErr, serverConns[s].tlsConn, serverConns[s].tlsState>>

\* C17: in every state where the signal of a ServerConn has fired, either its
\* handshake error is set and session and state are absent, or session and
\* state are both set and the error is absent; and from then on the signal
\* stays fired and none of the three fields changes, also when the authority
\* returns an error afterwards.
C17_CachedOutcomeFinal ==
  /\ [](\A s \in SCIds :
         Fired(s) =>
           \/ /\ serverConns[s].tlsHandshakeErr # "nil"
              /\ serverConns[s].tlsConn = 0
              /\ serverConns[s].tlsState = 0
           \/ /\ serverConns[s].tlsHandshakeErr = "nil"
              /\ serverConns[s].tlsConn # 0
              /\ serverConns[s].tlsState # 0)
  /\ [][\A s \in SCIds :
          Fired(s) => Fired(s)' /\ CachedOutcome(s)' = CachedOutcome(s)]_vars

\* C17 witness: the signal fired with the session cached, the authority then
\* returned an error, and a later initServerTcpConn has run on the context.
C17_Witness ==
  /\ Fired(1)
  /\ CachedOutcome(1) = <<"nil", 1, 1>>
  /\ <<"nil", "ECA">> \in gcRets
  /\ nSC = 2
  /\ Idle(1)

\* C18 (as claimed): a Close of the client wrapper never ends in a run-time
\* panic, and every call that returned has returned the error of the real
\* close: with no ServerConn, with a ServerConn left without connection by a
\* failed dial, and on the wrapper as wrapListener.Accept returned it.
C18_CloseNeverFaults ==
  /\ \A t \in Flows : ~panicked[t]
  /\ closeRets[0] >= 1 => retvals[0] = {wrappers[0].rawErr}

\* A flow runs a Close call that was started on the client wrapper or on the
\* server wrapper the context pairs with it.
InPairedClose(t) ==
  /\ stack[t] # <<>>
  /\ stack[t][1].op \in {"wrapClientConn.Close", "wrapServerConn.Close"}
  /\ stack[t][1].id \in {0, PairedWrapper}

\* C19: a Close started on either wrapper of the pair, whatever the closed
\* state of the two wrappers before, never nests more than three Close
\* calls; the third, re-entrant call finds the closed flag of its wrapper set
\* and does nothing but return; and the call started returns.
C19_CascadeTerminates ==
  /\ [](\A t \in Flows :
         InPairedClose(t) =>
           /\ Len(stack[t]) <= 3
           /\ Len(stack[t]) = 3 =>
                /\ stack[t][3].id = stack[t][1].id
                /\ stack[t][3].pc \in {"check", "ret"}
                /\ wrappers[stack[t][3].id].closed)
  /\ \A t \in Flows : InPairedClose(t) ~> (stack[t] = <<>>)

\* C19 witness: a Close started on the server wrapper of a pair with both
\* sides open is three calls deep, the re-entrant call about to return.
C19_Witness ==
  \E t \in Flows :
    /\ Len(stack[t]) = 3
    /\ stack[t][1].op = "wrapServerConn.Close"
    /\ stack[t][1].id = PairedWrapper
    /\ stack[t][3].pc = "ret"
    /\ pairedClose = PairedWrapper

\* C20 (as claimed): in tunnel mode, whenever ServerDisconnected has been
\* delivered to an addon for a server connection, ServerConnected has been
\* delivered to that addon for the ServerConn holding it.
C20_ConnectedBeforeDisconnected ==
  \A s \in SCIds : \A a \in Addons :
    (serverConns[s].Conn # 0 /\ discNotes[serverConns[s].Conn][a] >= 1) =>
      connNotes[s][a] >= 1

====
